---- MODULE Spec2Model ----
(***************************************************************************)
(* A model of the VISTA travel-survey preprocessing code:                  *)
(*   src/src/models.py      DataManager  (lazy raw relations, derived      *)
(*                          accessors, the _cache dictionary)              *)
(*   src/src/preprocess.py  Preprocess   (cell parsers, the enrichment     *)
(*                          steps, the processed_data store, main)         *)
(*                                                                         *)
(* Conventions.                                                            *)
(*  - A CSV cell is its text.  pandas reads an empty cell as NaN, so the   *)
(*    empty string "" stands for the missing (NaN) cell of a text column.  *)
(*  - A float is a pair <<n, d>>: the rational n/d with d > 0 in lowest    *)
(*    terms, NaN is <<0, 0>>, +inf is <<1, 0>> and -inf is <<-1, 0>>.      *)
(*  - What a Python call produces is a record [k, v, s, e]: k = "val" with *)
(*    the integer v, k = "str" with the text s, k = "none" for None and    *)
(*    k = "raise" with the exception's name e.                             *)
(***************************************************************************)
EXTENDS Integers, Sequences, FiniteSets, TLC

VARIABLES
    files,           \* the CSV files under data/raw_data (static input)
    raw,             \* DataManager._households .. _journey_education
    reads,           \* ghost: pd.read_csv calls made by each lazy property
    cache,           \* DataManager._cache
    fresh,           \* ghost: the relations load_columns and the accessors have built
    call,            \* ghost: the last DataManager call and what it returned
    processed_data,  \* Preprocess.processed_data
    step,            \* ghost: the last Preprocess step invoked and how it ended
    written,         \* the files under data/processed_data
    pc,              \* the position of preprocess.main
    cell             \* ghost: the last cell function applied, its input and result

vars == <<files, raw, reads, cache, fresh, call, processed_data, step, written, pc, cell>>

----------------------------------------------------------------------------
(* Python results *)

Val(v) == [k |-> "val", v |-> v, s |-> "", e |-> ""]
Str(s) == [k |-> "str", v |-> 0, s |-> s, e |-> ""]
None == [k |-> "none", v |-> 0, s |-> "", e |-> ""]
Raise(e) == [k |-> "raise", v |-> 0, s |-> "", e |-> e]

----------------------------------------------------------------------------
(* Text *)

DigitChars == <<"0", "1", "2", "3", "4", "5", "6", "7", "8", "9">>

IsDigit(c) == \E i \in 1..10 : DigitChars[i] = c

DigitVal(c) == (CHOOSE i \in 1..10 : DigitChars[i] = c) - 1

\* text[i-1:j] as Python slices: what lies outside the text is left out
Slice(text, i, j) ==
    LET a == IF i < 1 THEN 1 ELSE i
        b == IF j > Len(text) THEN Len(text) ELSE j
    IN  IF a > b THEN "" ELSE SubSeq(text, a, b)

Char(text, i) == Slice(text, i, i)

\* needle in text
Contains(text, needle) ==
    \E i \in 1..(Len(text) - Len(needle) + 1) :
        Slice(text, i, i + Len(needle) - 1) = needle

\* text.replace(",", "")
RECURSIVE RemoveCommas(_)
RemoveCommas(text) ==
    IF Len(text) = 0 THEN ""
    ELSE (IF Char(text, 1) = "," THEN "" ELSE Char(text, 1))
             \o RemoveCommas(Slice(text, 2, Len(text)))

AllDigits(text) == \A i \in 1..Len(text) : IsDigit(Char(text, i))

RECURSIVE DigitsValue(_)
DigitsValue(text) ==
    IF Len(text) = 0 THEN 0
    ELSE 10 * DigitsValue(Slice(text, 1, Len(text) - 1)) + DigitVal(Char(text, Len(text)))

\* int(text) for the texts of this model: a non-empty run of decimal digits
\* gives its value, anything else is a ValueError.
PyInt(text) ==
    IF Len(text) > 0 /\ AllDigits(text) THEN Val(DigitsValue(text))
    ELSE Raise("ValueError")

\* str(n) for n >= 0
RECURSIVE NatToStr(_)
NatToStr(n) ==
    IF n < 10 THEN DigitChars[n + 1]
    ELSE NatToStr(n \div 10) \o DigitChars[(n % 10) + 1]

\* The last index of the maximal run of [\d,] characters that starts at i
\* (i - 1 when text[i] is no such character).
RECURSIVE RunEnd(_, _)
RunEnd(text, i) ==
    IF i <= Len(text) /\ (IsDigit(Char(text, i)) \/ Char(text, i) = ",")
    THEN RunEnd(text, i + 1)
    ELSE i - 1

\* re.search(r"\(\$([\d,]+)-\$([\d,]+)\)", text) anchored at i: neither "-" nor
\* ")" is in the class [\d,], so each group is the maximal run.  The result
\* is <<matched, group 1, group 2>>.
MatchAt(text, i) ==
    LET e1 == RunEnd(text, i + 2)
        e2 == RunEnd(text, e1 + 3)
    IN  IF /\ Slice(text, i, i + 1) = "($"
           /\ e1 >= i + 2
           /\ Slice(text, e1 + 1, e1 + 2) = "-$"
           /\ e2 >= e1 + 3
           /\ Char(text, e2 + 1) = ")"
        THEN <<TRUE, Slice(text, i + 2, e1), Slice(text, e1 + 3, e2)>>
        ELSE <<FALSE, "", "">>

\* re.search: the leftmost match
YearlyBracket(text) ==
    LET hits == {i \in 1..Len(text) : MatchAt(text, i)[1]}
    IN  IF hits = {} THEN <<FALSE, "", "">>
        ELSE MatchAt(text, CHOOSE i \in hits : \A j \in hits : i <= j)

\* low = int(...); high = int(...); avg = int((low + high) / 2)
BracketMidpoint(m) ==
    LET low == PyInt(RemoveCommas(m[2]))
        high == PyInt(RemoveCommas(m[3]))
    IN  IF low.k = "raise" THEN low
        ELSE IF high.k = "raise" THEN high
        ELSE Val((low.v + high.v) \div 2)

----------------------------------------------------------------------------
(* The cell functions of Preprocess *)

\* float(val) of an empty (NaN) cell is NaN, which the column holds as a
\* missing value like None.
_to_float(val) ==
    IF val = "Missing" THEN None
    ELSE IF val = "" THEN None
    ELSE IF AllDigits(val) THEN Val(DigitsValue(val))
    ELSE Raise("ValueError")

_find_avg_yearly_Rounded(val) ==
    IF val = "" THEN None
    ELSE IF Contains(val, "or more") THEN Val(450000)
    ELSE LET m == YearlyBracket(val)
             r == BracketMidpoint(m)
         IN  IF ~m[1] THEN None
             ELSE IF r.k = "raise" THEN r
             ELSE Val(((r.v + 500) \div 1000) * 1000)

_find_avg_yearly(val) ==
    IF val = "" THEN None
    ELSE IF Contains(val, "or more") THEN Val(450000)
    ELSE LET m == YearlyBracket(val)
         IN  IF m[1] THEN BracketMidpoint(m) ELSE None

_personal_income_NilZero(text) ==
    IF text = "Negative income" \/ text = "Nil income" THEN Val(0)
    ELSE IF text = "" THEN Raise("TypeError")
    ELSE IF Contains(text, "or more") THEN Val(200000)
    ELSE LET m == YearlyBracket(text)
         IN  IF m[1] THEN BracketMidpoint(m) ELSE None

\* "or more" in text raises TypeError when text is the float NaN
_personal_income(text) ==
    IF text = "Negative income" THEN Val(0)
    ELSE IF text = "Nil income" THEN None
    ELSE IF text = "" THEN Raise("TypeError")
    ELSE IF Contains(text, "or more") THEN Val(200000)
    ELSE LET m == YearlyBracket(text)
         IN  IF m[1] THEN BracketMidpoint(m) ELSE None

\* age_str.split("->")[0]
SplitHead(text) ==
    LET hits == {i \in 1..(Len(text) - 1) : Slice(text, i, i + 1) = "->"}
    IN  IF hits = {} THEN text
        ELSE Slice(text, 1, (CHOOSE i \in hits : \A j \in hits : i <= j) - 1)

\* NaN has no split: AttributeError
_convert_age_to_decade(age_str) ==
    IF age_str = "100+" THEN Str("100+")
    ELSE IF age_str = "" THEN Raise("AttributeError")
    ELSE LET start_age == PyInt(SplitHead(age_str))
             decade_start == (start_age.v \div 10) * 10
         IN  IF start_age.k = "raise" THEN start_age
             ELSE Str(NatToStr(decade_start) \o "->" \o NatToStr(decade_start + 9))

\* Lines 90-99: the precedence chain on str(subregion)
zone_of_text(subregion) ==
    IF Contains(subregion, "Inner") THEN Str("Inner")
    ELSE IF Contains(subregion, "Middle") THEN Str("Middle")
    ELSE IF Contains(subregion, "Outer") THEN Str("Outer")
    ELSE IF ~ Contains(subregion, "Melbourne") THEN Str("Regional")
    ELSE Str("Other")

_categorise_melbourne_zone_Chained(subregion) ==
    zone_of_text(IF subregion = "" THEN "nan" ELSE subregion)

\* Lines 87-99; the missing value is answered before the chain
_categorise_melbourne_zone(subregion) ==
    IF subregion = "" THEN Str("Unknown") ELSE zone_of_text(subregion)

\* Lines 130-147, on a row that carries age_decade, studying, anywork and
\* activities; the age lists hold the labels the code writes, "0-10" to "90+"
_categorise_life_stage(row) ==
    IF row.age_decade \in {"0-10", "10-20"} THEN Str("Youth")
    ELSE IF row.studying # "No Study" THEN Str("Student")
    ELSE IF row.anywork = "Yes" /\ row.age_decade \in {"20-30", "30-40", "40-50", "50-60"}
         THEN Str("Working Adult")
    ELSE IF row.activities = "Retired" \/ row.age_decade \in {"60-70", "70-80", "80-90", "90+"}
         THEN Str("Retired/Senior")
    ELSE Str("Other")

\* Lines 339 and 373 of prep_persons on one row: age_decade is computed from
\* agegroup, then life_stage from the row that holds it
life_stage_of(row, age_decade) ==
    IF age_decade.k = "raise" THEN age_decade
    ELSE _categorise_life_stage(row @@ [age_decade |-> age_decade.s])

\* Lines 184-193: the purpose lists of _categorise_trip_purpose
mandatory == {"Work Related", "Education"}
maintenance == {"Buy Something", "Personal Business", "Pick-up or Deliver Something",
                "Pick-up or Drop-off Someone", "Accompany Someone"}
discretionary == {"Social", "Recreational"}

\* Line 198, purp == discretionary: a str compared with a list, which Python
\* evaluates to False whatever the two hold
EqualsList(purp, list) == FALSE

_categorise_trip_purpose_In(purp) ==
    IF purp = "" THEN Str("Unknown")
    ELSE IF purp = "At Home" THEN Str("Home")
    ELSE IF purp \in mandatory THEN Str("Mandatory")
    ELSE IF purp \in maintenance THEN Str("Maintenance")
    ELSE IF purp \in discretionary THEN Str("Discretionary")
    ELSE Str("Other")

_categorise_trip_purpose(purp) ==
    IF purp = "" THEN Str("Unknown")
    ELSE IF purp = "At Home" THEN Str("Home")
    ELSE IF purp \in mandatory THEN Str("Mandatory")
    ELSE IF purp \in maintenance THEN Str("Maintenance")
    ELSE IF EqualsList(purp, discretionary) THEN Str("Discretionary")
    ELSE Str("Other")

----------------------------------------------------------------------------
(* Floats: <<n, d>> is n/d in lowest terms with d > 0; NaN, +inf and -inf
   are <<0, 0>>, <<1, 0>> and <<-1, 0>>. *)

NaN == <<0, 0>>
PosInf == <<1, 0>>
NegInf == <<-1, 0>>
Num(n) == <<n, 1>>
Zero == <<0, 1>>

IsNaN(x) == x = NaN
IsInf(x) == x[2] = 0 /\ x[1] # 0
IsFinite(x) == x[2] > 0

Abs(n) == IF n < 0 THEN -n ELSE n

RECURSIVE GCD(_, _)
GCD(a, b) == IF b = 0 THEN a ELSE GCD(b, a % b)

\* n/d for d > 0, in lowest terms
Norm(n, d) ==
    LET g == GCD(Abs(n), d)
    IN  <<(IF n < 0 THEN -(Abs(n) \div g) ELSE n \div g), d \div g>>

FloatAdd(a, b) ==
    IF IsFinite(a) /\ IsFinite(b) THEN Norm(a[1] * b[2] + b[1] * a[2], a[2] * b[2])
    ELSE IF IsNaN(a) \/ IsNaN(b) THEN NaN
    ELSE IF IsInf(a) /\ IsInf(b) /\ a # b THEN NaN
    ELSE IF IsInf(a) THEN a ELSE b

\* a / b as numpy divides two float columns: x/0 is +-inf, 0/0 is NaN
FloatDiv(a, b) ==
    IF IsNaN(a) \/ IsNaN(b) THEN NaN
    ELSE IF IsInf(a) THEN (IF IsInf(b) THEN NaN ELSE IF b[1] < 0 THEN <<-a[1], 0>> ELSE a)
    ELSE IF IsInf(b) THEN Zero
    ELSE IF b[1] = 0 THEN (IF a[1] = 0 THEN NaN ELSE IF a[1] > 0 THEN PosInf ELSE NegInf)
    ELSE IF b[1] > 0 THEN Norm(a[1] * b[2], a[2] * b[1])
    ELSE Norm(-(a[1] * b[2]), a[2] * (-b[1]))

\* a <= b; every comparison with NaN is false
FloatLe(a, b) ==
    IF IsNaN(a) \/ IsNaN(b) THEN FALSE
    ELSE IF IsFinite(a) /\ IsFinite(b) THEN a[1] * b[2] <= b[1] * a[2]
    ELSE IF IsInf(a) THEN a[1] < 0 \/ a = b
    ELSE b[1] > 0

FloatLt(a, b) == FloatLe(a, b) /\ a # b

\* int(x) of a finite float: truncation toward zero
PyTrunc(x) == IF x[1] >= 0 THEN x[1] \div x[2] ELSE -((-x[1]) \div x[2])

\* The float a column holds for what a cell function returned
ToFloat(r) == IF r.k = "val" THEN Num(r.v) ELSE NaN

\* Series.fillna(value)
FillNa(x, value) == IF IsNaN(x) THEN value ELSE x

NotNaN(x) == ~IsNaN(x)

RECURSIVE SumSeq(_)
SumSeq(s) == IF s = <<>> THEN Zero ELSE FloatAdd(Head(s), SumSeq(Tail(s)))

\* Series.sum(): NaN is skipped, and the sum of nothing is 0
SumSkipNa(s) == SumSeq(SelectSeq(s, NotNaN))

\* Series.count(): the number of non-missing values
CountNotNa(s) == Len(SelectSeq(s, NotNaN))

MeanSkipNa_CountAll(s) == FloatDiv(SumSkipNa(s), Num(Len(s)))

\* Series.mean(): NaN is skipped, and the mean of nothing is NaN
MeanSkipNa(s) == FloatDiv(SumSkipNa(s), Num(CountNotNa(s)))

RECURSIVE Insert(_, _)
Insert(x, s) ==
    IF s = <<>> THEN <<x>>
    ELSE IF FloatLe(x, Head(s)) THEN <<x>> \o s
    ELSE <<Head(s)>> \o Insert(x, Tail(s))

RECURSIVE SortFloats(_)
SortFloats(s) == IF s = <<>> THEN <<>> ELSE Insert(Head(s), SortFloats(Tail(s)))

\* Series.median(): NaN is skipped; the mean of the two middle values when
\* their number is even; NaN when there is none
MedianSkipNa(s) ==
    LET v == SortFloats(SelectSeq(s, NotNaN))
        n == Len(v)
    IN  IF n = 0 THEN NaN
        ELSE IF n % 2 = 1 THEN v[(n + 1) \div 2]
        ELSE FloatDiv(FloatAdd(v[n \div 2], v[n \div 2 + 1]), Num(2))

\* Series.quantile(k/4) by linear interpolation over the sorted values v
Quartile(v, k) ==
    LET n == Len(v)
        lo == (k * (n - 1)) \div 4
        fr == (k * (n - 1)) % 4
    IN  IF fr = 0 THEN v[lo + 1]
        ELSE FloatAdd(v[lo + 1],
                      FloatDiv(FloatAdd(Norm(fr * v[lo + 2][1], v[lo + 2][2]),
                                        Norm(-(fr * v[lo + 1][1]), v[lo + 1][2])),
                               Num(4)))

\* pd.qcut(x, q=[0, 0.25, 0.5, 0.75, 1.0]) raises "Bin edges must be unique"
\* unless its five edges are strictly increasing
QcutRaises(s) ==
    LET v == SortFloats(SelectSeq(s, NotNaN))
    IN  \/ Len(v) = 0
        \/ \E k \in 0..3 : ~FloatLt(Quartile(v, k), Quartile(v, k + 1))

----------------------------------------------------------------------------
(* Relations are sequences of rows (records); a column is the sequence of
   its cells in row order. *)

\* The exception Series.apply propagates: that of the first cell, in row
\* order, whose function raised ("" when none did)
RECURSIVE FirstError(_)
FirstError(rs) ==
    IF rs = <<>> THEN ""
    ELSE IF Head(rs).k = "raise" THEN Head(rs).e
    ELSE FirstError(Tail(rs))

\* What a step's body produced: the exception it raised ("" for none) and
\* the relation it built
Built(table) == [error |-> "", table |-> table]
Failed(e) == [error |-> e, table |-> <<>>]

\* pd.cut(x, bins, labels): the label of the right-closed interval
\* (bins[i], bins[i+1]] that holds x, and missing ("") outside all of them;
\* a bin edge of PosInf is float("inf")
Cut(x, bins, labels) ==
    LET hits == {i \in 1..Len(labels) : FloatLt(bins[i], x) /\ FloatLe(x, bins[i + 1])}
    IN  IF hits = {} THEN "" ELSE labels[CHOOSE i \in hits : TRUE]

----------------------------------------------------------------------------
(* Preprocess.prep_households, lines 259-326, on the raw households relation *)

\* Lines 264-266: mean_yearly = hhinc_group.mean(); fillna(mean_yearly)
households_imputed(households, hhinc_group, mean_yearly) ==
    [i \in 1..Len(households) |->
        households[i] @@ [household_income |-> FillNa(hhinc_group[i], mean_yearly)]]

households_filled(households, hhinc_group) ==
    households_imputed(households, hhinc_group, MeanSkipNa(hhinc_group))

\* Line 263: hhinc_group.apply(self._find_avg_yearly)
households_parsed(households, parsed) ==
    IF FirstError(parsed) # "" THEN Failed(FirstError(parsed))
    ELSE Built(households_filled(households,
                                 [i \in 1..Len(households) |-> ToFloat(parsed[i])]))

households_enriched(households) ==
    households_parsed(households,
        [i \in 1..Len(households) |-> _find_avg_yearly(households[i].hhinc_group)])

----------------------------------------------------------------------------
(* Preprocess.prep_persons, lines 336-397, on the raw persons relation *)

\* Lines 378-387: fillna(mean_personal_income), then pd.qcut
persons_quartiled(persons, decade, filled) ==
    IF QcutRaises(filled) THEN Failed("ValueError")
    ELSE Built([i \in 1..Len(persons) |->
             persons[i] @@ [age_decade |-> decade[i].s, personal_income |-> filled[i]]])

\* Line 377: mean_personal_income = int(persons["personal_income"].mean());
\* int(nan) is a ValueError
persons_imputed(persons, decade, income, mean) ==
    IF ~IsFinite(mean) THEN Failed("ValueError")
    ELSE persons_quartiled(persons, decade,
             [i \in 1..Len(persons) |-> FillNa(income[i], Num(PyTrunc(mean)))])

\* Lines 339 and 376: the two applies, in that order
persons_parsed(persons, decade, parsed) ==
    IF FirstError(decade) # "" THEN Failed(FirstError(decade))
    ELSE IF FirstError(parsed) # "" THEN Failed(FirstError(parsed))
    ELSE persons_imputed(persons, decade,
             [i \in 1..Len(persons) |-> ToFloat(parsed[i])],
             MeanSkipNa([i \in 1..Len(persons) |-> ToFloat(parsed[i])]))

persons_enriched(persons) ==
    persons_parsed(persons,
        [i \in 1..Len(persons) |-> _convert_age_to_decade(persons[i].agegroup)],
        [i \in 1..Len(persons) |-> _personal_income(persons[i].persinc)])

----------------------------------------------------------------------------
(* Preprocess.prep_trips, lines 408-478, on the raw trips relation *)

MorningPeak(start_hour) == IF FloatLe(Num(7), start_hour) /\ FloatLe(start_hour, Num(9)) THEN 1 ELSE 0
EveningPeak(start_hour) == IF FloatLe(Num(17), start_hour) /\ FloatLe(start_hour, Num(19)) THEN 1 ELSE 0

\* a | b on two 0/1 integer columns
BitOr(a, b) == IF a = 1 \/ b = 1 THEN 1 ELSE 0

DistanceBins == <<Zero, Num(10), Num(20), Num(40), PosInf>>
DistanceLabels == <<"Short (0-10]", "Medium (10-20]", "Long (20-40]", "Very Long (40+)">>

trip_row_EitherPeak(t, start_hour, cumdist, travtime) ==
    [tripid |-> t.tripid,
     persid |-> t.persid,
     destpurp1 |-> t.destpurp1,
     startime |-> t.startime,
     start_hour |-> start_hour,
     is_morning_peak |-> MorningPeak(start_hour),
     is_evening_peak |-> EveningPeak(start_hour),
     is_peak_hour |-> BitOr(MorningPeak(start_hour), EveningPeak(start_hour)),
     cumdist |-> cumdist,
     distance_category |-> Cut(cumdist, DistanceBins, DistanceLabels),
     purpose_category |-> _categorise_trip_purpose(t.destpurp1).s,
     travtime |-> travtime]

\* One enriched trip: lines 411-421 (hours and peak flags), 441-453 (the
\* filled distance and its category), 456 (the purpose category) and 464 (the
\* travel time)
trip_row(t, start_hour, cumdist, travtime) ==
    [tripid |-> t.tripid,
     persid |-> t.persid,
     destpurp1 |-> t.destpurp1,
     startime |-> t.startime,
     start_hour |-> start_hour,
     is_morning_peak |-> MorningPeak(start_hour),
     is_evening_peak |-> EveningPeak(start_hour),
     is_peak_hour |-> BitOr(MorningPeak(start_hour), MorningPeak(start_hour)),
     cumdist |-> cumdist,
     distance_category |-> Cut(cumdist, DistanceBins, DistanceLabels),
     purpose_category |-> _categorise_trip_purpose(t.destpurp1).s,
     travtime |-> travtime]

\* Lines 440-441: median_distance = trips["cumdist"].median(); fillna
trips_filled(trips, cumdist, median_distance, time) ==
    [i \in 1..Len(trips) |->
        trip_row(trips[i], FloatDiv(Num(trips[i].startime), Num(60)),
                 FillNa(cumdist[i], median_distance), ToFloat(time[i]))]

\* Lines 439 and 464: the two applies of self._to_float, in that order
trips_parsed(trips, dist, time) ==
    IF FirstError(dist) # "" THEN Failed(FirstError(dist))
    ELSE IF FirstError(time) # "" THEN Failed(FirstError(time))
    ELSE Built(trips_filled(trips,
                   [i \in 1..Len(trips) |-> ToFloat(dist[i])],
                   MedianSkipNa([i \in 1..Len(trips) |-> ToFloat(dist[i])]),
                   time))

trips_enriched(trips) ==
    trips_parsed(trips,
        [i \in 1..Len(trips) |-> _to_float(trips[i].cumdist)],
        [i \in 1..Len(trips) |-> _to_float(trips[i].travtime)])

----------------------------------------------------------------------------
(* Preprocess.prep_journeys, lines 496-536, on one raw journey relation *)

\* pd.to_numeric(text, errors="coerce")
ToNumeric(text) ==
    IF Len(text) > 0 /\ AllDigits(text) THEN Num(DigitsValue(text))
    ELSE IF Len(text) > 1 /\ Char(text, 1) = "-" /\ AllDigits(Slice(text, 2, Len(text)))
         THEN Num(-DigitsValue(Slice(text, 2, Len(text))))
    ELSE NaN

NotMissing(c) == c # ""

ComplexityBins == <<Zero, Num(1), Num(2), Num(3), Num(15)>>
ComplexityLabels == <<"One-Stage", "Two-Stage", "Three-Stage", "Complex">>

\* lambda x: 0 if x < 0 else x
ClampNegative(x) == IF FloatLt(x, Zero) THEN Zero ELSE x

\* lambda x: 1 if (7 <= x <= 9) or (17 <= x <= 19) else 0
StartsInPeak(x) == IF MorningPeak(x) = 1 \/ EveningPeak(x) = 1 THEN 1 ELSE 0

journey_enriched(journey, type) ==
    [i \in 1..Len(journey) |->
        LET num_stops == Len(SelectSeq(journey[i].modes, NotMissing))
            jdist == ClampNegative(ToNumeric(journey[i].journey_distance))
            start_hour == FloatDiv(Num(journey[i].start_time), Num(60))
        IN  journey[i] @@
            [journey_type |-> type,
             journey_travel_hours |-> FloatDiv(ToNumeric(journey[i].journey_travel_time), Num(60)),
             num_stops |-> num_stops,
             journey_complexity |-> Cut(Num(num_stops), ComplexityBins, ComplexityLabels),
             jdist |-> jdist,
             journey_distance_category |-> Cut(jdist, DistanceBins, DistanceLabels),
             start_hour |-> start_hour,
             starts_in_peak_hour |-> StartsInPeak(start_hour)]]

----------------------------------------------------------------------------
(* Preprocess.prep_person_trip, lines 555-611, on the enriched persons and
   trips relations *)

RECURSIVE ConcatAll(_)
ConcatAll(ss) == IF ss = <<>> THEN <<>> ELSE Head(ss) \o ConcatAll(Tail(ss))

\* One column of the rows of a group
Cells(rows, col) == [i \in 1..Len(rows) |-> rows[i][col]]

\* trip_summary.replace([np.inf, -np.inf], 0) and then fillna(0)
NoInfNoNaN(x) == IF IsInf(x) \/ IsNaN(x) THEN Zero ELSE x

MetricCols == {"total_trips", "total_distance", "total_travel_time",
               "total_peak_hour_trips", "work_trips", "edu_trips",
               "peak_hour_ratio", "avg_trip_distance", "avg_trip_duration"}

\* The row of trip_summary for the group of person k (lines 556-602); the
\* groupby has a row for k only when some trip has persid k
trip_summary(trips, k) ==
    LET rows == SelectSeq(trips, LAMBDA t : t.persid = k)
        total_trips == Num(Len(rows))
        total_distance == SumSkipNa(Cells(rows, "cumdist"))
        total_travel_time == SumSkipNa(Cells(rows, "travtime"))
        total_peak_hour_trips ==
            SumSeq([i \in 1..Len(rows) |-> Num(rows[i].is_peak_hour)])
        work == Len(SelectSeq(rows, LAMBDA t : t.destpurp1 = "Work Related"))
        edu == Len(SelectSeq(rows, LAMBDA t : t.destpurp1 = "Education"))
    IN  [total_trips |-> total_trips,
         total_distance |-> total_distance,
         total_travel_time |-> total_travel_time,
         total_peak_hour_trips |-> total_peak_hour_trips,
         work_trips |-> FillNa(IF work = 0 THEN NaN ELSE Num(work), Zero),
         edu_trips |-> FillNa(IF edu = 0 THEN NaN ELSE Num(edu), Zero),
         peak_hour_ratio |-> NoInfNoNaN(FloatDiv(total_peak_hour_trips, total_trips)),
         avg_trip_distance |-> NoInfNoNaN(FloatDiv(total_distance, total_trips)),
         avg_trip_duration |-> NoInfNoNaN(FloatDiv(total_travel_time, total_trips))]

HasTrips(trips, k) == \E i \in 1..Len(trips) : trips[i].persid = k

person_metrics_Unfilled(trips, k) ==
    IF HasTrips(trips, k) THEN trip_summary(trips, k)
    ELSE [c \in MetricCols |-> NaN]

\* The metric columns of a person's row after the left merge (lines 604-606)
\* and person_trips[trip_metric_cols].fillna(0) (line 609)
person_metrics(trips, k) ==
    IF HasTrips(trips, k) THEN trip_summary(trips, k)
    ELSE [c \in MetricCols |-> FillNa(NaN, Zero)]

person_trips_table(persons, trips) ==
    [i \in 1..Len(persons) |-> persons[i] @@ person_metrics(trips, persons[i].persid)]

----------------------------------------------------------------------------
(* Preprocess.create_combined_dataset, lines 625-644: the left merge of
   persons_trips_summary with households[hh_features] on hhid *)

hh_features(h) == [household_income |-> h.household_income]

hh_missing == [household_income |-> NaN]

\* The rows one left row yields: one per matching household, in the
\* households' order, or a single row of missing values when none matches
merge_row_Inner(r, households) ==
    LET hit == SelectSeq(households, LAMBDA h : h.hhid = r.hhid)
    IN  [j \in 1..Len(hit) |-> r @@ hh_features(hit[j])]

merge_row(r, households) ==
    LET hit == SelectSeq(households, LAMBDA h : h.hhid = r.hhid)
    IN  IF hit = <<>> THEN <<r @@ hh_missing>>
        ELSE [j \in 1..Len(hit) |-> r @@ hh_features(hit[j])]

master_table(person_trips, households) ==
    ConcatAll([i \in 1..Len(person_trips) |-> merge_row(person_trips[i], households)])

----------------------------------------------------------------------------
(* Preprocess.create_compare_dataset, lines 657-695: the trips of one purpose
   left-merged with master[master_*_cols] on persid *)

master_cols(m) == [hhid |-> m.hhid, age_decade |-> m.age_decade,
                   household_income |-> m.household_income]

master_missing == [hhid |-> 0, age_decade |-> "", household_income |-> NaN]

compare_row(t, master) ==
    LET hit == SelectSeq(master, LAMBDA m : m.persid = t.persid)
    IN  IF hit = <<>> THEN <<t @@ master_missing>>
        ELSE [j \in 1..Len(hit) |-> t @@ master_cols(hit[j])]

compare_table(trips, master, purpose) ==
    LET sel == SelectSeq(trips, LAMBDA t : t.destpurp1 = purpose)
    IN  ConcatAll([i \in 1..Len(sel) |-> compare_row(sel[i], master)])

----------------------------------------------------------------------------
(* DataManager: the lazy raw relations (models.py lines 22-27 and 46-112) *)

DatasetNames == {"households", "persons", "trips", "stops",
                 "journey_work", "journey_education"}

\* A raw relation field: None is gen = 0; the relation the n-th pd.read_csv
\* of the file built has gen = n (its identity) and rows (its content)
NotLoaded == [gen |-> 0, rows |-> <<>>]

EmptyDict == [k \in {} |-> 0]

\* d[k] = v
Put(d, k, v) == [x \in DOMAIN d \cup {k} |-> IF x = k THEN v ELSE d[x]]

\* The part of the program state a Preprocess step works on, with the
\* exception it ended with ("" for none) and the steps it started
World == [raw |-> raw, reads |-> reads, pd |-> processed_data, error |-> "", ran |-> <<>>]

LazyLoad_Always(w, d) ==
    [w EXCEPT !.raw[d] = [gen |-> w.reads[d] + 1, rows |-> files[d]],
              !.reads[d] = @ + 1]

\* The property of dataset d: "if self._d is None: self._d = pd.read_csv(...)"
LazyLoad(w, d) ==
    IF w.raw[d].gen = 0
    THEN [w EXCEPT !.raw[d] = [gen |-> w.reads[d] + 1, rows |-> files[d]],
                   !.reads[d] = @ + 1]
    ELSE w

----------------------------------------------------------------------------
(* Preprocess: the steps as state changes.  Each takes the world it starts
   in and gives the world it ends in; an exception leaves what was stored
   before it in place. *)

Started(w, name) == [w EXCEPT !.ran = Append(@, name)]

Store_Appending(w, name, built) ==
    IF built.error # "" THEN [w EXCEPT !.error = built.error]
    ELSE IF name \in DOMAIN w.pd THEN [w EXCEPT !.pd[name] = @ \o built.table]
    ELSE [w EXCEPT !.pd = Put(@, name, built.table)]

\* self.processed_data[name] = table, reached only when the body did not raise
Store(w, name, built) ==
    IF built.error # "" THEN [w EXCEPT !.error = built.error]
    ELSE [w EXCEPT !.pd = Put(@, name, built.table)]

\* The copy of the raw relation a step works on
Rows(w, d) == w.raw[d].rows

households_stored(w) == Store(w, "households", households_enriched(Rows(w, "households")))

do_prep_households(w) ==
    households_stored(LazyLoad(Started(w, "prep_households"), "households"))

persons_stored_InPlace(w) ==
    IF persons_enriched(Rows(w, "persons")).error # ""
    THEN Store(w, "persons", persons_enriched(Rows(w, "persons")))
    ELSE [Store(w, "persons", persons_enriched(Rows(w, "persons")))
             EXCEPT !.raw["persons"].rows = persons_enriched(Rows(w, "persons")).table]

persons_stored(w) == Store(w, "persons", persons_enriched(Rows(w, "persons")))

do_prep_persons(w) ==
    persons_stored(LazyLoad(Started(w, "prep_persons"), "persons"))

trips_stored(w) == Store(w, "trips", trips_enriched(Rows(w, "trips")))

do_prep_trips(w) ==
    trips_stored(LazyLoad(Started(w, "prep_trips"), "trips"))

journeys_stored(w) ==
    Store(Store(w, "journey_work",
                Built(journey_enriched(Rows(w, "journey_work"), "Work"))),
          "journey_education",
          Built(journey_enriched(Rows(w, "journey_education"), "Education")))

do_prep_journeys(w) ==
    journeys_stored(LazyLoad(LazyLoad(Started(w, "prep_journeys"), "journey_work"),
                             "journey_education"))

\* Lines 552-611, in the world w the two "if ... not in" lines 547-550
\* left.  Line 550 names self.prep_trips without calling it: when "trips"
\* is not stored nothing has run, and line 553 raises KeyError
person_trip_stored(w) ==
    IF w.error # "" THEN w
    ELSE IF "trips" \notin DOMAIN w.pd THEN [w EXCEPT !.error = "KeyError"]
    ELSE Store(w, "persons_trips_summary",
               Built(person_trips_table(w.pd["persons"], w.pd["trips"])))

\* Lines 547-548: if "persons" not in self.processed_data: self.prep_persons()
person_trip_needs(w) ==
    IF "persons" \notin DOMAIN w.pd THEN do_prep_persons(w) ELSE w

do_prep_person_trip(w) ==
    person_trip_stored(person_trip_needs(Started(w, "prep_person_trip")))

\* Lines 625-644
combined_stored(w) ==
    IF w.error # "" THEN w
    ELSE Store(w, "master",
               Built(master_table(w.pd["persons_trips_summary"], w.pd["households"])))

\* Lines 622-623
combined_needs_summary(w) ==
    IF w.error # "" THEN w
    ELSE IF "persons_trips_summary" \notin DOMAIN w.pd THEN do_prep_person_trip(w)
    ELSE w

combined_needs_households_Always(w) == do_prep_households(w)

\* Lines 620-621
combined_needs_households(w) ==
    IF "households" \notin DOMAIN w.pd THEN do_prep_households(w) ELSE w

do_create_combined_dataset(w) ==
    combined_stored(combined_needs_summary(combined_needs_households(
        Started(w, "create_combined_dataset"))))

\* Lines 657-698
compare_stored(w) ==
    IF w.error # "" THEN w
    ELSE Store(Store(w, "work_trips",
                     Built(compare_table(w.pd["trips"], w.pd["master"], "Work Related"))),
               "education_trips",
               Built(compare_table(w.pd["trips"], w.pd["master"], "Education")))

\* Lines 654-655
compare_needs_master(w) ==
    IF w.error # "" THEN w
    ELSE IF "master" \notin DOMAIN w.pd THEN do_create_combined_dataset(w)
    ELSE w

\* Lines 652-653
compare_needs_trips(w) ==
    IF "trips" \notin DOMAIN w.pd THEN do_prep_trips(w) ELSE w

do_create_compare_dataset(w) ==
    compare_stored(compare_needs_master(compare_needs_trips(
        Started(w, "create_compare_dataset"))))

StepNames == <<"prep_households", "prep_persons", "prep_trips", "prep_journeys",
               "prep_person_trip", "create_combined_dataset", "create_compare_dataset">>

DoStep(name, w) ==
    CASE name = "prep_households" -> do_prep_households(w)
      [] name = "prep_persons" -> do_prep_persons(w)
      [] name = "prep_trips" -> do_prep_trips(w)
      [] name = "prep_journeys" -> do_prep_journeys(w)
      [] name = "prep_person_trip" -> do_prep_person_trip(w)
      [] name = "create_combined_dataset" -> do_create_combined_dataset(w)
      [] name = "create_compare_dataset" -> do_create_compare_dataset(w)

----------------------------------------------------------------------------
(* The input files the model is checked on.  Identifiers are positive
   integers (0 is the missing identifier of a merged row); the first row of
   every file is well formed, so every numeric column has a number in it. *)

MaxTrips == 2

LabelA == "$1,500-$1,749 ($78,000-$90,999)"
LabelTop == "$8,000 or more ($416,000 or more)"
LabelPers == "$800-$999 ($41,600-$51,999)"
LabelPersTop == "$2,000 or more ($104,000 or more)"

HouseholdRow(hhid, hhinc_group) == [hhid |-> hhid, hhinc_group |-> hhinc_group]

HouseholdFiles ==
    {<<HouseholdRow(1, LabelA)>>}
    \cup {<<HouseholdRow(1, LabelA), h>> :
            h \in {HouseholdRow(2, LabelTop),          \* a second household
                   HouseholdRow(2, "Missing/Refused"), \* an unparseable income
                   HouseholdRow(1, LabelTop)}}         \* a repeated hhid
    \cup {<<HouseholdRow(1, LabelA), HouseholdRow(2, LabelTop),     \* two incomes
            HouseholdRow(3, "Missing/Refused"), HouseholdRow(4, "")>>} \* to impute

PersonRow(persid, hhid, agegroup, persinc) ==
    [persid |-> persid, hhid |-> hhid, agegroup |-> agegroup, persinc |-> persinc]

PersonFiles ==
    {<<PersonRow(1, 1, "20->24", LabelPers), p>> :
        p \in {PersonRow(2, 2, "0->4", "Negative income"),
               PersonRow(2, 7, "65->69", LabelPersTop),   \* no such household
               PersonRow(2, 1, "100+", "Nil income"),     \* imputed income
               PersonRow(2, 2, "", "Negative income"),    \* missing age group
               PersonRow(2, 2, "35->39", ""),             \* missing income
               PersonRow(1, 2, "0->4", "Negative income")}} \* a repeated persid
    \cup {<<PersonRow(1, 1, "20->24", LabelPers),
            PersonRow(2, 2, "0->4", "Negative income"),
            PersonRow(3, 1, "Unknown", LabelPersTop)>>}   \* unparseable age group

TripRow(persid, destpurp1, startime, cumdist, travtime) ==
    [tripid |-> 0, persid |-> persid, destpurp1 |-> destpurp1, startime |-> startime,
     cumdist |-> cumdist, travtime |-> travtime]

FirstTrip == TripRow(1, "Work Related", 480, "12", "30")

TripRows ==
    {TripRow(1, "Education", 1020, "Missing", "Missing"),
     TripRow(2, "Social", 570, "4", "10"),               \* 9:30, past the peak
     TripRow(2, "Work Related", 540, "50", "Missing"),
     TripRow(9, "Education", 420, "6", "20"),            \* no such person
     TripRow(2, "Education", 480, "abc", "15")}          \* non-numeric distance

\* tripid is the row's position in the file
Numbered(rows) == [i \in 1..Len(rows) |-> [rows[i] EXCEPT !.tripid = i]]

TripFiles ==
    {Numbered(<<FirstTrip>> \o s) : s \in UNION {[1..n -> TripRows] : n \in 0..MaxTrips}}

NoModes == [i \in 1..15 |-> ""]

JourneyRow(jid, persid, hhid, journey_distance, journey_travel_time, start_time, modes) ==
    [jid |-> jid, persid |-> persid, hhid |-> hhid, journey_distance |-> journey_distance,
     journey_travel_time |-> journey_travel_time, start_time |-> start_time,
     modes |-> modes]

JourneyWorkFile ==
    <<JourneyRow(1, 1, 1, "12", "30", 480,
                 [NoModes EXCEPT ![1] = "Vehicle Driver"]),
      JourneyRow(2, 2, 2, "-3", "Missing", 1020,
                 [NoModes EXCEPT ![1] = "Walking", ![2] = "Train", ![3] = "Walking"])>>

JourneyEducationFile ==
    <<JourneyRow(1, 2, 2, "4", "10", 510,
                 [NoModes EXCEPT ![1] = "Walking", ![3] = "Tram"]),
      JourneyRow(2, 1, 1, "0", "20", 450, NoModes)>>   \* no leg recorded

StopRow(stopid, tripid, destpurp1) == [stopid |-> stopid, tripid |-> tripid, destpurp1 |-> destpurp1]

StopsFile == <<StopRow(1, 1, "Work Related"), StopRow(2, 1, "Education")>>

Files(households, persons, trips) ==
    [households |-> households, persons |-> persons, trips |-> trips,
     stops |-> StopsFile, journey_work |-> JourneyWorkFile,
     journey_education |-> JourneyEducationFile]

\* The columns of a file, the same in all its rows
Header(d) == DOMAIN files[d][1]

\* A relation an accessor hands out: id tells one object from another
NoRelation == [id |-> <<"", 0>>, rows |-> <<>>]

NoCall == [op |-> "none", args |-> <<>>, error |-> "", ret |-> NoRelation,
           computed |-> FALSE, read |-> FALSE]
NoStep == [op |-> "none", error |-> "", ran |-> <<>>]
NoCell == [fn |-> "none", arg |-> "", out |-> None]

\* The state after DataManager() and Preprocess(dm)
Fresh ==
    /\ raw = [d \in DatasetNames |-> NotLoaded]
    /\ reads = [d \in DatasetNames |-> 0]
    /\ cache = EmptyDict
    /\ fresh = 0
    /\ call = NoCall
    /\ processed_data = EmptyDict
    /\ step = NoStep
    /\ written = {}
    /\ cell = NoCell

----------------------------------------------------------------------------
(* Spec: the steps of one Preprocess, invoked in any order *)

\* A clean input, one whose persons file has a missing income and one whose
\* trips file has a non-numeric distance, with and without a person who
\* made no trip
SpecFiles ==
    {Files(<<HouseholdRow(1, LabelA), HouseholdRow(2, LabelTop)>>, <<PersonRow(1, 1, "20->24", LabelPers), p>>, t) :
        p \in {PersonRow(2, 2, "0->4", "Negative income"), PersonRow(2, 2, "35->39", "")},
        t \in {Numbered(<<FirstTrip>>),
               Numbered(<<FirstTrip, TripRow(2, "Social", 600, "4", "10")>>),
               Numbered(<<FirstTrip, TripRow(2, "Education", 480, "abc", "15")>>)}}

Init ==
    /\ files \in SpecFiles
    /\ Fresh
    /\ pc = "idle"

\* what a step leaves alone
untouched == <<files, cache, fresh, call, written, pc, cell>>

prep_households ==
    LET w == do_prep_households(World)
    IN  /\ raw' = w.raw
        /\ reads' = w.reads
        /\ processed_data' = w.pd
        /\ step' = [op |-> "prep_households", error |-> w.error, ran |-> w.ran]
        /\ UNCHANGED untouched

prep_persons ==
    LET w == do_prep_persons(World)
    IN  /\ raw' = w.raw
        /\ reads' = w.reads
        /\ processed_data' = w.pd
        /\ step' = [op |-> "prep_persons", error |-> w.error, ran |-> w.ran]
        /\ UNCHANGED untouched

prep_trips ==
    LET w == do_prep_trips(World)
    IN  /\ raw' = w.raw
        /\ reads' = w.reads
        /\ processed_data' = w.pd
        /\ step' = [op |-> "prep_trips", error |-> w.error, ran |-> w.ran]
        /\ UNCHANGED untouched

prep_journeys ==
    LET w == do_prep_journeys(World)
    IN  /\ raw' = w.raw
        /\ reads' = w.reads
        /\ processed_data' = w.pd
        /\ step' = [op |-> "prep_journeys", error |-> w.error, ran |-> w.ran]
        /\ UNCHANGED untouched

prep_person_trip ==
    LET w == do_prep_person_trip(World)
    IN  /\ raw' = w.raw
        /\ reads' = w.reads
        /\ processed_data' = w.pd
        /\ step' = [op |-> "prep_person_trip", error |-> w.error, ran |-> w.ran]
        /\ UNCHANGED untouched

create_combined_dataset ==
    LET w == do_create_combined_dataset(World)
    IN  /\ raw' = w.raw
        /\ reads' = w.reads
        /\ processed_data' = w.pd
        /\ step' = [op |-> "create_combined_dataset", error |-> w.error, ran |-> w.ran]
        /\ UNCHANGED untouched

create_compare_dataset ==
    LET w == do_create_compare_dataset(World)
    IN  /\ raw' = w.raw
        /\ reads' = w.reads
        /\ processed_data' = w.pd
        /\ step' = [op |-> "create_compare_dataset", error |-> w.error, ran |-> w.ran]
        /\ UNCHANGED untouched

\* Lines 711-713: one <name>_processed.csv per stored relation
save_processed_data ==
    /\ written' = written \cup {name \o "_processed.csv" : name \in DOMAIN processed_data}
    /\ step' = [op |-> "save_processed_data", error |-> "", ran |-> <<>>]
    /\ UNCHANGED <<files, raw, reads, cache, fresh, call, processed_data, pc, cell>>

Next ==
    \/ prep_households
    \/ prep_persons
    \/ prep_trips
    \/ prep_journeys
    \/ prep_person_trip
    \/ create_combined_dataset
    \/ create_compare_dataset
    \/ save_processed_data

Spec == Init /\ [][Next]_vars

----------------------------------------------------------------------------
(* SpecMain: one run of preprocess.main (lines 718-741), which builds a
   DataManager and a Preprocess, calls the seven steps in order and then
   save_processed_data.  An exception a step raises is caught nowhere and
   ends the run. *)

MainFiles ==
    {Files(h, p, t) : h \in HouseholdFiles, p \in PersonFiles, t \in TripFiles}

MainInit ==
    /\ files \in MainFiles
    /\ Fresh
    /\ pc = StepNames[1]

AfterStep_Continue(i, error) ==
    IF i = Len(StepNames) THEN "save_processed_data" ELSE StepNames[i + 1]

\* Where main is after its i-th call ended with error ("" for none)
AfterStep(i, error) ==
    IF error # "" THEN "raised"
    ELSE IF i = Len(StepNames) THEN "save_processed_data"
    ELSE StepNames[i + 1]

\* Lines 723-729: the call of the step main has come to
main ==
    \E i \in 1..Len(StepNames) :
        /\ pc = StepNames[i]
        /\ LET w == DoStep(StepNames[i], World)
           IN  /\ raw' = w.raw
               /\ reads' = w.reads
               /\ processed_data' = w.pd
               /\ step' = [op |-> StepNames[i], error |-> w.error, ran |-> w.ran]
               /\ pc' = AfterStep(i, w.error)
        /\ UNCHANGED <<files, cache, fresh, call, written, cell>>

\* Line 741, after the prints of lines 731-739
main_save ==
    /\ pc = "save_processed_data"
    /\ written' = written \cup {name \o "_processed.csv" : name \in DOMAIN processed_data}
    /\ step' = [op |-> "save_processed_data", error |-> "", ran |-> <<>>]
    /\ pc' = "done"
    /\ UNCHANGED <<files, raw, reads, cache, fresh, call, processed_data, cell>>

MainNext ==
    \/ main
    \/ main_save

SpecMain == MainInit /\ [][MainNext]_vars

----------------------------------------------------------------------------
(* SpecCell: the cell functions of Preprocess applied to single cells *)

WeeklyParts == {"", "$1,500-$1,749 ", "$800-$999 "}

Amounts == {"78,000", "90,999", "41,600", "51,999", "7", ","}

\* "<weekly> ($<low>-$<high>)", the form of hhinc_group and persinc
BracketTexts ==
    {w \o "($" \o a \o "-$" \o b \o ")" : w \in WeeklyParts, a \in Amounts, b \in Amounts}

IncomeTexts ==
    BracketTexts
    \cup {"", "Missing/Refused", "Negative income", "Nil income", "Zero Income",
          LabelTop, LabelPersTop, "$1-$199 ($1-$10,399) or more",
          "($78,000-$90,999", "$78,000-$90,999", "($78,000 - $90,999)"}

NumberTexts == {"", "Missing", "0", "4", "12", "50", "abc", "12km", "missing", "-"}

AgeTexts == {"", "100+", "0->4", "5->9", "20->24", "65->69", "95->99", "Unknown", "->", "85+"}

CellInit ==
    /\ files = Files(<<>>, <<>>, <<>>)
    /\ Fresh
    /\ pc = "idle"

\* what the cell functions leave alone
others == <<files, raw, reads, cache, fresh, call, processed_data, step, written, pc>>

apply_find_avg_yearly ==
    \E val \in IncomeTexts :
        /\ cell' = [fn |-> "_find_avg_yearly", arg |-> val, out |-> _find_avg_yearly(val)]
        /\ UNCHANGED others

apply_personal_income ==
    \E text \in IncomeTexts :
        /\ cell' = [fn |-> "_personal_income", arg |-> text, out |-> _personal_income(text)]
        /\ UNCHANGED others

apply_to_float ==
    \E val \in NumberTexts :
        /\ cell' = [fn |-> "_to_float", arg |-> val, out |-> _to_float(val)]
        /\ UNCHANGED others

apply_convert_age_to_decade ==
    \E age_str \in AgeTexts :
        /\ cell' = [fn |-> "_convert_age_to_decade", arg |-> age_str,
                    out |-> _convert_age_to_decade(age_str)]
        /\ UNCHANGED others

PurposeTexts ==
    {"", "At Home", "Social", "Recreational", "Other Purpose", "Change Mode", "Unknown"}
    \cup mandatory \cup maintenance

apply_categorise_trip_purpose ==
    \E purp \in PurposeTexts :
        /\ cell' = [fn |-> "_categorise_trip_purpose", arg |-> purp,
                    out |-> _categorise_trip_purpose(purp)]
        /\ UNCHANGED others

LifeAges == {"0->4", "15->19", "20->24", "55->59", "65->69", "100+"}

PersonActivity ==
    [agegroup : LifeAges,
     studying : {"No Study", "Primary", ""},
     anywork : {"Yes", "No"},
     activities : {"Retired", "Employed", ""}]

apply_categorise_life_stage ==
    \E row \in PersonActivity :
        /\ cell' = [fn |-> "_categorise_life_stage", arg |-> row,
                    out |-> life_stage_of(row, _convert_age_to_decade(row.agegroup))]
        /\ UNCHANGED others

SubregionTexts ==
    {"", "Inner Melbourne", "Middle Melbourne", "Outer Melbourne", "Melbourne",
     "Rest of Melbourne", "Geelong", "Inner Middle", "Outer Middle Melbourne",
     "Outer Inner", "Ballarat Outer", "inner melbourne", "Greater Melbourne Inner"}

apply_categorise_melbourne_zone ==
    \E subregion \in SubregionTexts :
        /\ cell' = [fn |-> "_categorise_melbourne_zone", arg |-> subregion,
                    out |-> _categorise_melbourne_zone(subregion)]
        /\ UNCHANGED others

CellNext ==
    \/ apply_categorise_melbourne_zone
    \/ apply_categorise_life_stage
    \/ apply_categorise_trip_purpose
    \/ apply_find_avg_yearly
    \/ apply_personal_income
    \/ apply_to_float
    \/ apply_convert_age_to_decade

SpecCell == CellInit /\ [][CellNext]_vars

----------------------------------------------------------------------------
(* DataManager: the raw properties, load_columns and the derived accessors.
   A relation is [id, rows]: the raw relation of dataset d built by the n-th
   read of its file is <<d, n>>, the n-th relation load_columns or an
   accessor builds is <<"built", n>>.  Of the columns an accessor selects
   the rows carry those the input files of the model have. *)

MaxReads == 2
MaxFresh == 3

BoolStr(b) == IF b THEN "True" ELSE "False"

CacheKey_MethodOnly(method, include_person_data, include_household_data) == method

\* f"{method}_{include_person_data}_{include_household_data}"
CacheKey(method, include_person_data, include_household_data) ==
    method \o "_" \o BoolStr(include_person_data) \o "_" \o BoolStr(include_household_data)

Loaded == [raw |-> raw, reads |-> reads]

RawRelation(w, d) == [id |-> <<d, w.raw[d].gen>>, rows |-> w.raw[d].rows]

Relation(n, rows) == [id |-> <<"built", n>>, rows |-> rows]

Returned(op, args, ret, computed) ==
    [op |-> op, args |-> args, error |-> "", ret |-> ret, computed |-> computed,
     read |-> FALSE]

Raised(op, args, error, read) ==
    [op |-> op, args |-> args, error |-> error, ret |-> NoRelation, computed |-> FALSE,
     read |-> read]

Project_All(rows, columns) == rows

\* df[columns]
Project(rows, columns) == [i \in 1..Len(rows) |-> [c \in columns |-> rows[i][c]]]

\* The cell of column c in a left row that nothing on the right matches
MissingCell(c) == IF c \in {"hhid", "hhid_y", "persid"} THEN 0 ELSE ""

\* The rows with column from named to
Renamed(rows, from, to) ==
    [i \in 1..Len(rows) |->
        [c \in (DOMAIN rows[i] \ {from}) \cup {to} |->
            IF c = to THEN rows[i][from] ELSE rows[i][c]]]

\* pd.merge(left, right[columns], on=on, how="left"), for columns of which
\* only on is a column of left
LeftMerge(left, right, columns, on) ==
    LET hits(r) == SelectSeq(right, LAMBDA x : x[on] = r[on])
        joined(r, x) == r @@ [c \in columns \ {on} |-> x[c]]
        missing(r) == r @@ [c \in columns \ {on} |-> MissingCell(c)]
    IN  ConcatAll([i \in 1..Len(left) |->
            IF hits(left[i]) = <<>> THEN <<missing(left[i])>>
            ELSE [j \in 1..Len(hits(left[i])) |-> joined(left[i], hits(left[i])[j])]])

\* df[df["destpurp1"] == purpose]
OfPurpose(rows, purpose) == SelectSeq(rows, LAMBDA t : t.destpurp1 = purpose)

\* "if trip_type == 'work': ... elif trip_type == 'education': ..."
OfTripType(rows, trip_type) ==
    IF trip_type = "work" THEN OfPurpose(rows, "Work Related")
    ELSE IF trip_type = "education" THEN OfPurpose(rows, "Education")
    ELSE rows

\* The properties a call of get_work_trips or get_education_trips reads, in
\* the order it reads them, while nothing is raised
TripsNeeds(w, include_person_data, include_household_data, has_hhid) ==
    LET w1 == LazyLoad(w, "trips")
        w2 == IF include_person_data THEN LazyLoad(w1, "persons") ELSE w1
        w3 == IF include_household_data /\ ~has_hhid THEN LazyLoad(w2, "persons") ELSE w2
    IN  IF include_household_data THEN LazyLoad(w3, "households") ELSE w3

with_persons(rows, include_person_data, person_cols) ==
    IF include_person_data
    THEN LeftMerge(rows, files.persons, person_cols \cap Header("persons"), "persid")
    ELSE rows

with_hhid(rows, include_household_data) ==
    IF include_household_data /\ "hhid" \notin Header("trips")
    THEN LeftMerge(rows, files.persons, {"persid", "hhid"}, "persid")
    ELSE rows

with_households(rows, include_household_data, household_cols) ==
    IF include_household_data
    THEN LeftMerge(rows, files.households, household_cols \cap Header("households"), "hhid")
    ELSE rows

\* Lines 149-193
work_trips_rows(include_person_data, include_household_data) ==
    with_households(
        with_hhid(
            with_persons(OfPurpose(files.trips, "Work Related"), include_person_data,
                         {"persid", "agegroup", "sex", "carlicence", "anywork", "emptype",
                          "persinc", "anywfh"}),
            include_household_data),
        include_household_data, {"hhid", "hhinc_group", "totalvehs", "hhsize"})

\* Lines 214-256, for the calls that line 235 lets through
education_trips_rows(include_person_data, include_household_data) ==
    with_households(
        with_persons(OfPurpose(files.trips, "Education"), include_person_data,
                     {"persid", "agegroup", "sex", "studying", "mainact", "carlicence",
                      "relationship"}),
        include_household_data, {"hhid", "hhinc_group", "totalvehs", "hhsize"})

----------------------------------------------------------------------------
(* SpecDM: one DataManager whose raw properties and load_columns are
   called in any order *)

DMFiles ==
    Files(<<HouseholdRow(1, LabelA), HouseholdRow(2, LabelTop)>>,
          <<PersonRow(1, 1, "20->24", LabelPers), PersonRow(2, 2, "0->4", "Negative income")>>,
          Numbered(<<FirstTrip, TripRow(2, "Education", 480, "4", "15")>>))

DMInit ==
    /\ files = DMFiles
    /\ Fresh
    /\ pc = "idle"

\* what the DataManager is not
beyond == <<files, processed_data, step, written, pc, cell>>

\* dm.households, dm.persons, dm.trips, dm.stops, dm.journey_work,
\* dm.journey_education (lines 46-112)
raw_property ==
    \E d \in DatasetNames :
        LET w == LazyLoad(Loaded, d)
        IN  /\ w.reads[d] <= MaxReads
            /\ raw' = w.raw
            /\ reads' = w.reads
            /\ call' = Returned(d, <<>>, RawRelation(w, d), raw[d].gen = 0)
            /\ UNCHANGED <<cache, fresh>>
            /\ UNCHANGED beyond

DatasetArgs == DatasetNames \cup {"journeys", "households.csv"}

ColumnArgs == {{"persid"}, {"hhid"}, {"persid", "hhid"}, {"hhid", "hhinc_group"},
               {"hhid", "income"}}

\* Lines 124-131.  pd.read_csv(usecols=columns) opens the file and raises
\* ValueError when a name of columns is not in its header
load_columns ==
    \E dataset \in DatasetArgs, columns \in ColumnArgs :
        /\ IF dataset \notin DatasetNames
           THEN /\ call' = Raised("load_columns", <<dataset, columns>>, "ValueError", FALSE)
                /\ fresh' = fresh
           ELSE IF ~ (columns \subseteq Header(dataset))
           THEN /\ call' = Raised("load_columns", <<dataset, columns>>, "ValueError", TRUE)
                /\ fresh' = fresh
           ELSE /\ fresh < MaxFresh
                /\ call' = [Returned("load_columns", <<dataset, columns>>,
                                     Relation(fresh + 1, Project(files[dataset], columns)),
                                     TRUE)
                            EXCEPT !.read = TRUE]
                /\ fresh' = fresh + 1
        /\ UNCHANGED <<raw, reads, cache>>
        /\ UNCHANGED beyond

DMNext ==
    \/ raw_property
    \/ load_columns

SpecDM == DMInit /\ [][DMNext]_vars

----------------------------------------------------------------------------
(* SpecCache: one DataManager whose derived accessors are called in any
   order, on a trips file without and with an hhid column *)

WithHhid(trips) == [i \in 1..Len(trips) |-> trips[i] @@ [hhid |-> trips[i].persid]]

CacheInit ==
    /\ files \in {DMFiles, [DMFiles EXCEPT !.trips = WithHhid(@)]}
    /\ Fresh
    /\ pc = "idle"

\* Lines 145-196
get_work_trips ==
    \E include_person_data \in BOOLEAN, include_household_data \in BOOLEAN :
        LET cache_key == CacheKey("work_trips", include_person_data, include_household_data)
            w == TripsNeeds(Loaded, include_person_data, include_household_data,
                            "hhid" \in Header("trips"))
            work_trips == Relation(fresh + 1,
                                   work_trips_rows(include_person_data, include_household_data))
            args == <<include_person_data, include_household_data>>
        IN  /\ IF cache_key \in DOMAIN cache
               THEN /\ call' = Returned("get_work_trips", args, cache[cache_key], FALSE)
                    /\ UNCHANGED <<raw, reads, cache, fresh>>
               ELSE /\ fresh < MaxFresh
                    /\ raw' = w.raw
                    /\ reads' = w.reads
                    /\ fresh' = fresh + 1
                    /\ cache' = Put(cache, cache_key, work_trips)
                    /\ call' = Returned("get_work_trips", args, work_trips, TRUE)
            /\ UNCHANGED beyond

\* Lines 210-259.  Line 235 indexes self.persons with ["persid", ["hhid"]]:
\* pandas raises TypeError for the list inside the list, after trips and
\* persons have been read and before anything is cached
get_education_trips ==
    \E include_person_data \in BOOLEAN, include_household_data \in BOOLEAN :
        LET cache_key == CacheKey("education_trips", include_person_data,
                                  include_household_data)
            has_hhid == "hhid" \in Header("trips")
            w == TripsNeeds(Loaded, include_person_data, include_household_data, has_hhid)
            raises == include_household_data /\ ~ has_hhid
            before == LazyLoad(TripsNeeds(Loaded, include_person_data, FALSE, has_hhid),
                               "persons")
            education_trips ==
                Relation(fresh + 1,
                         education_trips_rows(include_person_data, include_household_data))
            args == <<include_person_data, include_household_data>>
        IN  /\ IF cache_key \in DOMAIN cache
               THEN /\ call' = Returned("get_education_trips", args, cache[cache_key], FALSE)
                    /\ UNCHANGED <<raw, reads, cache, fresh>>
               ELSE IF raises
               THEN /\ raw' = before.raw
                    /\ reads' = before.reads
                    /\ call' = Raised("get_education_trips", args, "TypeError", FALSE)
                    /\ UNCHANGED <<cache, fresh>>
               ELSE /\ fresh < MaxFresh
                    /\ raw' = w.raw
                    /\ reads' = w.reads
                    /\ fresh' = fresh + 1
                    /\ cache' = Put(cache, cache_key, education_trips)
                    /\ call' = Returned("get_education_trips", args, education_trips, TRUE)
            /\ UNCHANGED beyond

\* Lines 270-294; the rows are those of result["work"] followed by those of
\* result["education"].  Both sides of the merges have an hhid column, which
\* pandas names hhid_x on the left and hhid_y on the right
get_journey_dict ==
    LET w == LazyLoad(LazyLoad(LazyLoad(Loaded, "journey_work"), "journey_education"),
                      "persons")
        person_cols == {"persid", "agegroup", "hhid_y"}
        persons == Renamed(Project(files.persons, {"persid", "agegroup", "hhid"}),
                           "hhid", "hhid_y")
        result ==
            Relation(fresh + 1,
                     LeftMerge(Renamed(files.journey_work, "hhid", "hhid_x"),
                               persons, person_cols, "persid")
                     \o LeftMerge(Renamed(files.journey_education, "hhid", "hhid_x"),
                                  persons, person_cols, "persid"))
    IN  /\ IF "journey_dict" \in DOMAIN cache
           THEN /\ call' = Returned("get_journey_dict", <<>>, cache["journey_dict"], FALSE)
                /\ UNCHANGED <<raw, reads, cache, fresh>>
           ELSE /\ fresh < MaxFresh
                /\ raw' = w.raw
                /\ reads' = w.reads
                /\ fresh' = fresh + 1
                /\ cache' = Put(cache, "journey_dict", result)
                /\ call' = Returned("get_journey_dict", <<>>, result, TRUE)
        /\ UNCHANGED beyond

\* trip_type; "" stands for None
TripTypes == {"", "work", "education", "shopping"}

\* Lines 306-315: a filtered copy of columns of self.stops; self._cache is neither read nor written
get_spatial_data ==
    \E trip_type \in TripTypes :
        LET w == LazyLoad(Loaded, "stops")
        IN  /\ fresh < MaxFresh
            /\ raw' = w.raw
            /\ reads' = w.reads
            /\ fresh' = fresh + 1
            /\ call' = Returned("get_spatial_data", <<trip_type>>,
                                Relation(fresh + 1, OfTripType(files.stops, trip_type)), TRUE)
            /\ UNCHANGED cache
            /\ UNCHANGED beyond

\* Lines 326-336: a filtered copy of columns of self.trips; self._cache is neither read nor written
get_temporal_data ==
    \E trip_type \in TripTypes :
        LET w == LazyLoad(Loaded, "trips")
        IN  /\ fresh < MaxFresh
            /\ raw' = w.raw
            /\ reads' = w.reads
            /\ fresh' = fresh + 1
            /\ call' = Returned("get_temporal_data", <<trip_type>>,
                                Relation(fresh + 1, OfTripType(files.trips, trip_type)), TRUE)
            /\ UNCHANGED cache
            /\ UNCHANGED beyond

\* Lines 346-365: a filtered copy of columns of self.trips, with the count of modes; self._cache is neither read nor written
get_modal_data ==
    \E trip_type \in TripTypes :
        LET w == LazyLoad(Loaded, "trips")
        IN  /\ fresh < MaxFresh
            /\ raw' = w.raw
            /\ reads' = w.reads
            /\ fresh' = fresh + 1
            /\ call' = Returned("get_modal_data", <<trip_type>>,
                                Relation(fresh + 1, OfTripType(files.trips, trip_type)), TRUE)
            /\ UNCHANGED cache
            /\ UNCHANGED beyond

\* Lines 376-387: a filtered copy of columns of self.stops; self._cache is neither read nor written
get_stop_data ==
    \E trip_type \in TripTypes :
        LET w == LazyLoad(Loaded, "stops")
        IN  /\ fresh < MaxFresh
            /\ raw' = w.raw
            /\ reads' = w.reads
            /\ fresh' = fresh + 1
            /\ call' = Returned("get_stop_data", <<trip_type>>,
                                Relation(fresh + 1, OfTripType(files.stops, trip_type)), TRUE)
            /\ UNCHANGED cache
            /\ UNCHANGED beyond

JourneySource_Named(journey_type) ==
    IF journey_type = "education" THEN "journey_education" ELSE "journey_work"

\* Lines 397-400: journey_work for "work", journey_education for anything else
JourneySource(journey_type) ==
    IF journey_type = "work" THEN "journey_work" ELSE "journey_education"

\* Lines 407-428: the segment of leg i of one journey row; jid is the row's
\* jtwid or jteid
segment(row, i, journey_type) ==
    [journey_id |-> row.jid, persid |-> row.persid, hhid |-> row.hhid, segment_no |-> i,
     mode |-> row.modes[i], journey_type |-> journey_type,
     journey_travel_time |-> row.journey_travel_time]

\* Lines 404-428: the legs whose mode is not missing, journey by journey
segments_of(journey_df, journey_type) ==
    ConcatAll([j \in 1..Len(journey_df) |->
        SelectSeq([i \in 1..15 |-> segment(journey_df[j], i, journey_type)],
                  LAMBDA seg : NotMissing(seg.mode))])

\* journey_type; "" stands for None
JourneyTypes == {"", "work", "education", "Work"}

\* Lines 397-429: self._cache is neither read nor written
get_journey_segments ==
    \E journey_type \in JourneyTypes :
        LET w == LazyLoad(Loaded, JourneySource(journey_type))
        IN  /\ fresh < MaxFresh
            /\ raw' = w.raw
            /\ reads' = w.reads
            /\ fresh' = fresh + 1
            /\ call' = Returned("get_journey_segments", <<journey_type>>,
                                Relation(fresh + 1,
                                         segments_of(files[JourneySource(journey_type)],
                                                     journey_type)), TRUE)
            /\ UNCHANGED cache
            /\ UNCHANGED beyond

CacheNext ==
    \/ get_journey_segments
    \/ get_work_trips
    \/ get_education_trips
    \/ get_journey_dict
    \/ get_spatial_data
    \/ get_temporal_data
    \/ get_modal_data
    \/ get_stop_data

SpecCache == CacheInit /\ [][CacheNext]_vars

----------------------------------------------------------------------------
(* SpecFrame: the enrichment steps of a Preprocess and accessors of its
   DataManager on the same raw relations, invoked in any order on one input *)

FrameInit ==
    /\ files = DMFiles
    /\ Fresh
    /\ pc = "idle"

FrameNext ==
    \/ prep_households
    \/ prep_persons
    \/ prep_trips
    \/ prep_journeys
    \/ get_modal_data
    \/ get_stop_data
    \/ get_journey_segments

SpecFrame == FrameInit /\ [][FrameNext]_vars

----------------------------------------------------------------------------
(* Properties of the cell functions (SpecCell) *)

\* texts in which no "($<digits,>-$<digits,>)" occurs and no "or more"
Unbracketed ==
    {"", "Missing/Refused", "Negative income", "Nil income", "Zero Income",
     "($78,000-$90,999", "$78,000-$90,999", "($78,000 - $90,999)"}

OrMoreTexts == {LabelTop, LabelPersTop, "$1-$199 ($1-$10,399) or more"}

\* C9: _find_avg_yearly maps "$1,500-$1,749 ($78,000-$90,999)" to 84499, the
\* truncated midpoint int((78000 + 90999) / 2); every label containing
\* "or more" to 450000; and every value without a yearly bracket, the missing
\* value included, to None.
C9_FindAvgYearly ==
    cell.fn = "_find_avg_yearly" =>
        /\ cell.arg = LabelA => cell.out = Val(84499)
        /\ cell.arg \in OrMoreTexts => cell.out = Val(450000)
        /\ cell.arg \in Unbracketed => cell.out = None

C9_Witness ==
    /\ cell.fn = "_find_avg_yearly"
    /\ cell.arg = LabelA
    /\ cell.out.k = "val"

\* C9 as stated: the label "$1,500-$1,749 ($78,000-$90,999)" maps to 84000.
C9_AsStated ==
    cell.fn = "_find_avg_yearly" =>
        /\ cell.arg = LabelA => cell.out = Val(84000)
        /\ cell.arg \in OrMoreTexts => cell.out = Val(450000)
        /\ cell.arg \in Unbracketed => cell.out = None

\* C10: _personal_income maps "Negative income" to 0, "Nil income" to None,
\* every label containing "or more" to 200000 and
\* "$800-$999 ($41,600-$51,999)" to 46799, the truncated midpoint
\* int((41600 + 51999) / 2).
C10_PersonalIncome ==
    cell.fn = "_personal_income" =>
        /\ cell.arg = "Negative income" => cell.out = Val(0)
        /\ cell.arg = "Nil income" => cell.out = None
        /\ cell.arg \in OrMoreTexts => cell.out = Val(200000)
        /\ cell.arg = LabelPers => cell.out = Val(46799)

C10_Witness ==
    /\ cell.fn = "_personal_income"
    /\ cell.arg = LabelPers
    /\ cell.out.k = "val"

\* C10 as stated: the label "$800-$999 ($41,600-$51,999)" maps to 46800.
C10_AsStated ==
    cell.fn = "_personal_income" =>
        /\ cell.arg = "Negative income" => cell.out = Val(0)
        /\ cell.arg = "Nil income" => cell.out = None
        /\ cell.arg \in OrMoreTexts => cell.out = Val(200000)
        /\ cell.arg = LabelPers => cell.out = Val(46800)

----------------------------------------------------------------------------
(* Properties of the steps invoked in any order (Spec) *)

Dependents == {"prep_person_trip", "create_combined_dataset", "create_compare_dataset"}

EnrichmentSteps == {"prep_households", "prep_persons", "prep_trips", "prep_journeys"}

\* The exceptions that come from the content of a cell
CellErrors == {"ValueError", "TypeError", "AttributeError"}

\* The tables a step leaves in the store when it completes
Outputs(name) ==
    CASE name = "prep_households" -> {"households"}
      [] name = "prep_persons" -> {"persons"}
      [] name = "prep_trips" -> {"trips"}
      [] name = "prep_journeys" -> {"journey_work", "journey_education"}
      [] name = "prep_person_trip" -> {"persons", "trips", "persons_trips_summary"}
      [] name = "create_combined_dataset" ->
            {"households", "persons", "trips", "persons_trips_summary", "master"}
      [] name = "create_compare_dataset" ->
            {"households", "persons", "trips", "persons_trips_summary", "master",
             "work_trips", "education_trips"}
      [] OTHER -> {}

\* C2: an invocation of prep_person_trip, create_combined_dataset or
\* create_compare_dataset that no cell of the input makes fail completes, and
\* then its prerequisites' tables and its own are in the store.
C2_AsStated ==
    (step.op \in Dependents /\ step.error \notin CellErrors) =>
        /\ step.error = ""
        /\ Outputs(step.op) \subseteq DOMAIN processed_data

\* C6: an enrichment step never raises, whatever the cells of its input.
C6_AsStated ==
    step.op \in EnrichmentSteps => step.error = ""

----------------------------------------------------------------------------
(* Properties of a run of main (SpecMain) *)

UniqueKey(rows, key) ==
    \A i, j \in 1..Len(rows) : rows[i][key] = rows[j][key] => i = j

TripsOwned(persid) == Cardinality({j \in 1..Len(files.trips) : files.trips[j].persid = persid})

\* C3: when persid is unique in persons and hhid is unique in households,
\* master has one row per person, in the persons' order; the row's
\* total_trips is the number of trips with that persid and its
\* household_income is the household_income of the enriched household with
\* the row's hhid.
C3_MasterRows ==
    ("master" \in DOMAIN processed_data
        /\ UniqueKey(files.persons, "persid") /\ UniqueKey(files.households, "hhid")) =>
        LET master == processed_data["master"]
            households == processed_data["households"]
        IN  /\ Len(master) = Len(files.persons)
            /\ \A i \in 1..Len(master) :
                /\ master[i].persid = files.persons[i].persid
                /\ master[i].hhid = files.persons[i].hhid
                /\ master[i].total_trips = Num(TripsOwned(master[i].persid))
                /\ \A h \in 1..Len(households) :
                      households[h].hhid = master[i].hhid =>
                          master[i].household_income = households[h].household_income

\* a person with two trips, a person with none, a person of the second
\* household and a person of no household, in runs that built master
C3_Witness ==
    /\ "master" \in DOMAIN processed_data
    /\ UniqueKey(files.persons, "persid") /\ UniqueKey(files.households, "hhid")
    /\ Len(files.households) = 2
    /\ \E i \in 1..Len(files.persons) : TripsOwned(files.persons[i].persid) = 2
    /\ \E i \in 1..Len(files.persons) : TripsOwned(files.persons[i].persid) = 0
    /\ \E i \in 1..Len(processed_data["master"]) :
          processed_data["master"][i].household_income
              = processed_data["households"][2].household_income

C3_WitnessNoHousehold ==
    /\ "master" \in DOMAIN processed_data
    /\ UniqueKey(files.persons, "persid") /\ UniqueKey(files.households, "hhid")
    /\ \E i \in 1..Len(files.persons) :
          \A h \in 1..Len(files.households) :
              files.households[h].hhid # files.persons[i].hhid

RatioCols == {"peak_hour_ratio", "avg_trip_distance", "avg_trip_duration"}

\* C4: in persons_trips_summary every person with no trip has 0 in each of
\* the nine summary columns, and every person's peak_hour_ratio,
\* avg_trip_distance and avg_trip_duration is a finite number.
C4_SummaryZeros ==
    "persons_trips_summary" \in DOMAIN processed_data =>
        LET summary == processed_data["persons_trips_summary"]
        IN  \A i \in 1..Len(summary) :
                /\ TripsOwned(summary[i].persid) = 0 =>
                      \A c \in MetricCols : summary[i][c] = Zero
                /\ \A c \in RatioCols : IsFinite(summary[i][c])

C4_Witness ==
    /\ "persons_trips_summary" \in DOMAIN processed_data
    /\ \E i \in 1..Len(processed_data["persons_trips_summary"]) :
          TripsOwned(processed_data["persons_trips_summary"][i].persid) = 0
    /\ \E i \in 1..Len(processed_data["persons_trips_summary"]) :
          processed_data["persons_trips_summary"][i].peak_hour_ratio \notin {Zero, Num(1)}

\* C5: in a run of main, files are written only by save_processed_data, taken
\* when each of the seven steps has completed and left its tables in the
\* store; once a step has raised, no step and no write follows.
C5_SaveAfterAllSteps ==
    [][/\ step.error = ""
       /\ written' # written =>
             /\ step'.op = "save_processed_data"
             /\ \A i \in 1..Len(StepNames) : Outputs(StepNames[i]) \subseteq DOMAIN processed_data
       /\ step'.error # "" => (pc' = "raised" /\ written' = {})]_vars

\* prep_trips raised: nothing of the later steps is in the store, nothing is
\* written and the run is over
C5_Witness ==
    /\ pc = "raised"
    /\ step.op = "prep_trips" /\ step.error = "ValueError"
    /\ DOMAIN processed_data = {"households", "persons"}
    /\ written = {}
    /\ ~ ENABLED MainNext

C5_WitnessSaved ==
    /\ pc = "done"
    /\ written # {}

----------------------------------------------------------------------------
(* Properties of the raw properties and load_columns (SpecDM) *)

\* C1: the file of each raw dataset is read at most once, by the first access
\* of its property, and every access returns the relation that read built.
C1_ReadOnce ==
    \A d \in DatasetNames :
        /\ reads[d] <= 1
        /\ raw[d].gen = reads[d]
        /\ call.op = d =>
              /\ reads[d] = 1
              /\ call.ret = [id |-> <<d, 1>>, rows |-> files[d]]

\* a second access of a property, with another dataset not yet loaded
C1_Witness ==
    \E d, e \in DatasetNames :
        /\ call.op = d /\ ~ call.computed
        /\ call.ret.id = <<d, 1>>
        /\ reads[d] = 1
        /\ reads[e] = 0

ColumnsOf(relation) == UNION {DOMAIN relation.rows[i] : i \in 1..Len(relation.rows)}

\* C8: load_columns with an unknown dataset raises ValueError and reads no
\* file; with a known dataset it reads the file; when every requested column
\* is in the file's header it returns a new relation with one row per row of
\* the file and the requested columns only, and when one is not it raises
\* ValueError.  No call changes a raw relation or the cache.
C8_LoadColumns ==
    [][call'.op = "load_columns" =>
          LET dataset == call'.args[1]
              columns == call'.args[2]
          IN  /\ raw' = raw /\ reads' = reads /\ cache' = cache
              /\ dataset \notin DatasetNames =>
                    (call'.error = "ValueError" /\ ~ call'.read /\ fresh' = fresh)
              /\ dataset \in DatasetNames => call'.read
              /\ (dataset \in DatasetNames /\ columns \subseteq Header(dataset)) =>
                    /\ call'.error = ""
                    /\ Len(call'.ret.rows) = Len(files[dataset])
                    /\ \A i \in 1..Len(call'.ret.rows) : DOMAIN call'.ret.rows[i] = columns
                    /\ call'.ret.id # call.ret.id
                    /\ \A d \in DatasetNames : call'.ret.id # <<d, raw'[d].gen>>
              /\ (dataset \in DatasetNames /\ ~ (columns \subseteq Header(dataset))) =>
                    call'.error = "ValueError"]_vars

\* the same columns of the same dataset loaded a second time
C8_Witness ==
    /\ call.op = "load_columns" /\ call.error = ""
    /\ call.args = <<"households", {"hhid", "hhinc_group"}>>
    /\ ColumnsOf(call.ret) = {"hhid", "hhinc_group"}
    /\ call.ret.id = <<"built", 2>>
    /\ raw["households"] = NotLoaded

\* C8 as stated: with a known dataset load_columns returns a relation of
\* exactly the requested columns, whatever the columns.
C8_AsStated ==
    (call.op = "load_columns" /\ call.args[1] \in DatasetNames) =>
        /\ call.error = ""
        /\ ColumnsOf(call.ret) = call.args[2]

----------------------------------------------------------------------------
(* Properties of the derived accessors (SpecCache) *)

Memoized == {"get_work_trips", "get_education_trips", "get_journey_dict"}

Unmemoized == {"get_spatial_data", "get_temporal_data", "get_modal_data", "get_stop_data"}

\* The key of a call of a memoized accessor, as its f-string spells it
KeyOf(c) ==
    IF c.op = "get_journey_dict" THEN "journey_dict"
    ELSE (IF c.op = "get_work_trips" THEN "work_trips_" ELSE "education_trips_")
         \o (IF c.args[1] THEN "True" ELSE "False") \o "_"
         \o (IF c.args[2] THEN "True" ELSE "False")

CachedIds(c) == {c[k].id : k \in DOMAIN c}

C7_WitnessRaised ==
    /\ call.op = "get_education_trips" /\ call.error = "TypeError"
    /\ raw["persons"] # NotLoaded
    /\ cache = EmptyDict

----------------------------------------------------------------------------
(* Household income imputation (prep_households, lines 262-266) *)

\* The income labels of the raw households that _find_avg_yearly parses
Parseable(households) ==
    {i \in 1..Len(households) : _find_avg_yearly(households[i].hhinc_group).k = "val"}

RECURSIVE ParsedTotal(_, _)
ParsedTotal(households, n) ==
    IF n = 0 THEN 0
    ELSE ParsedTotal(households, n - 1)
         + (IF n \in Parseable(households)
            THEN _find_avg_yearly(households[n].hhinc_group).v ELSE 0)

----------------------------------------------------------------------------
(* Peak-hour flags (prep_trips, lines 411-421; prep_person_trip, 556-574) *)

\* startime is in minutes from midnight, so 7 <= start_hour <= 9 is
\* 420 <= startime <= 540, and 17 <= start_hour <= 19 is 1020 <= startime <= 1140
InMorning(t) == 420 <= t.startime /\ t.startime <= 540
InEvening(t) == 1020 <= t.startime /\ t.startime <= 1140

MorningTrips(k) ==
    {i \in 1..Len(files.trips) : files.trips[i].persid = k /\ InMorning(files.trips[i])}

\* C12: in the stored trips, is_morning_peak is 1 exactly for a start hour in
\* [7, 9], is_evening_peak is 1 exactly for a start hour in [17, 19], and
\* is_peak_hour equals is_morning_peak; in the stored summary, a person's
\* total_peak_hour_trips is the number of that person's morning-peak trips
C12_PeakIsMorning ==
    /\ "trips" \in DOMAIN processed_data =>
           LET trips == processed_data["trips"]
           IN  /\ Len(trips) = Len(files.trips)
               /\ \A i \in 1..Len(trips) :
                      /\ trips[i].is_morning_peak = (IF InMorning(files.trips[i]) THEN 1 ELSE 0)
                      /\ trips[i].is_evening_peak = (IF InEvening(files.trips[i]) THEN 1 ELSE 0)
                      /\ trips[i].is_peak_hour = trips[i].is_morning_peak
    /\ "persons_trips_summary" \in DOMAIN processed_data =>
           \A i \in 1..Len(processed_data["persons_trips_summary"]) :
               LET row == processed_data["persons_trips_summary"][i]
               IN  row.total_peak_hour_trips = <<Cardinality(MorningTrips(row.persid)), 1>>

\* A person with one morning trip and one evening trip is summarised with
\* one peak-hour trip, and the evening trip has is_peak_hour = 0
C12_Witness ==
    /\ "persons_trips_summary" \in DOMAIN processed_data
    /\ \E i \in 1..Len(processed_data["trips"]) :
           /\ processed_data["trips"][i].is_evening_peak = 1
           /\ processed_data["trips"][i].is_peak_hour = 0
           /\ \E j \in 1..Len(processed_data["persons_trips_summary"]) :
                  LET row == processed_data["persons_trips_summary"][j]
                  IN  /\ row.persid = processed_data["trips"][i].persid
                      /\ row.total_trips = <<2, 1>>
                      /\ row.total_peak_hour_trips = <<1, 1>>

----------------------------------------------------------------------------
(* Trip purpose categories (_categorise_trip_purpose, lines 178-201) *)

\* C13: the purpose categoriser never returns "Discretionary": a missing
\* purpose gives Unknown, "At Home" gives Home, the two mandatory purposes
\* give Mandatory, the five maintenance purposes give Maintenance, and every
\* other text, "Social" and "Recreational" among them, gives Other
C13_NeverDiscretionary ==
    cell.fn = "_categorise_trip_purpose" =>
        /\ cell.out.k = "str"
        /\ cell.out.s # "Discretionary"
        /\ cell.out.s =
              (IF cell.arg = "" THEN "Unknown"
               ELSE IF cell.arg = "At Home" THEN "Home"
               ELSE IF cell.arg \in {"Work Related", "Education"} THEN "Mandatory"
               ELSE IF cell.arg \in {"Buy Something", "Personal Business",
                                     "Pick-up or Deliver Something",
                                     "Pick-up or Drop-off Someone", "Accompany Someone"}
                    THEN "Maintenance"
               ELSE "Other")

C13_Witness ==
    /\ cell.fn = "_categorise_trip_purpose"
    /\ cell.arg = "Social"
    /\ cell.out = Str("Other")

----------------------------------------------------------------------------
(* Life stage (_categorise_life_stage, lines 130-147; prep_persons 339, 373) *)

\* The first age of a 5-year group: "20->24" is 20, "100+" is 100
StartAge(agegroup) == IF agegroup = "100+" THEN 100 ELSE PyInt(SplitHead(agegroup)).v

\* C14: the life stage follows the first matching rule over the decade of
\* the person's age: Youth in the two youngest decades whatever the other
\* fields, else Student when studying, else Working Adult when working in the
\* 20s to 50s, else Retired/Senior when retired or in the 60s or older, else
\* Other
C14_AsStated ==
    cell.fn = "_categorise_life_stage" =>
        cell.out =
            Str(IF StartAge(cell.arg.agegroup) < 20 THEN "Youth"
                ELSE IF cell.arg.studying # "No Study" THEN "Student"
                ELSE IF cell.arg.anywork = "Yes" /\ StartAge(cell.arg.agegroup) < 60
                     THEN "Working Adult"
                ELSE IF cell.arg.activities = "Retired" \/ StartAge(cell.arg.agegroup) >= 60
                     THEN "Retired/Senior"
                ELSE "Other")

----------------------------------------------------------------------------
(* Household data in get_work_trips and get_education_trips (lines 169-196
   and 231-259) *)

PurposeOf(op) == IF op = "get_work_trips" THEN "Work Related" ELSE "Education"

Matching(op) ==
    {i \in 1..Len(files.trips) : files.trips[i].destpurp1 = PurposeOf(op)}

\* C15: a call of get_work_trips or get_education_trips that asks for
\* household data while trips has no hhid column completes, returns one row
\* per trip of its purpose, each with the hhid of the trip's person, and
\* leaves the returned relation in the cache under its key
C15_AsStated ==
    (/\ call.op \in {"get_work_trips", "get_education_trips"}
     /\ call.args[2]
     /\ "hhid" \notin Header("trips")) =>
        /\ call.error = ""
        /\ Len(call.ret.rows) = Cardinality(Matching(call.op))
        /\ \A i \in 1..Len(call.ret.rows) : "hhid" \in DOMAIN call.ret.rows[i]
        /\ KeyOf(call) \in DOMAIN cache
        /\ cache[KeyOf(call)] = call.ret

----------------------------------------------------------------------------
(* Journey segments (get_journey_segments, lines 389-429) *)

\* The journey file the claim names for a journey_type
SegmentSource(journey_type) ==
    IF journey_type = "work" THEN files.journey_work ELSE files.journey_education

Legs(journeys) ==
    {<<j, i>> \in (1..Len(journeys)) \X (1..15) : journeys[j].modes[i] # ""}

\* C16: get_journey_segments returns exactly one row for every journey and
\* leg index i in 1..15 whose mode slot i is not missing and no other row;
\* the row carries the journey's identifier and persid and segment_no = i;
\* "work" reads the work journeys and every other journey_type, none
\* included, reads the education journeys
C16_Segments ==
    call.op = "get_journey_segments" =>
        LET journeys == SegmentSource(call.args[1])
            rows == call.ret.rows
            RowsOf(j, i) ==
                {k \in 1..Len(rows) : /\ rows[k].journey_id = journeys[j].jid
                                       /\ rows[k].persid = journeys[j].persid
                                       /\ rows[k].segment_no = i}
        IN  /\ call.error = ""
            /\ Len(rows) = Cardinality(Legs(journeys))
            /\ \A p \in Legs(journeys) : Cardinality(RowsOf(p[1], p[2])) = 1
            /\ \A p \in ((1..Len(journeys)) \X (1..15)) \ Legs(journeys) :
                   RowsOf(p[1], p[2]) = {}

\* No journey_type: the education journey with legs 1 and 3 gives two rows
C16_Witness ==
    /\ call.op = "get_journey_segments"
    /\ call.args = <<"">>
    /\ Len(call.ret.rows) = 2
    /\ call.ret.rows[2].segment_no = 3
    /\ call.ret.rows[2].mode = "Tram"

----------------------------------------------------------------------------
(* Household zone (_categorise_melbourne_zone, lines 85-99) *)

\* The zone the precedence of the claim gives a text
ZoneByPrecedence(text) ==
    IF Contains(text, "Inner") THEN "Inner"
    ELSE IF Contains(text, "Middle") THEN "Middle"
    ELSE IF Contains(text, "Outer") THEN "Outer"
    ELSE IF ~ Contains(text, "Melbourne") THEN "Regional"
    ELSE "Other"

\* C17: the zone classifier returns Unknown for a missing subregion and, for
\* every other subregion value, exactly one of Inner, Middle, Outer, Regional
\* and Other by precedence: contains "Inner", else contains "Middle", else
\* contains "Outer", else does not contain "Melbourne" (Regional), else Other
C17_Zone ==
    cell.fn = "_categorise_melbourne_zone" =>
        /\ cell.out.k = "str"
        /\ cell.arg = "" => cell.out.s = "Unknown"
        /\ cell.arg # "" =>
              /\ cell.out.s \in {"Inner", "Middle", "Outer", "Regional", "Other"}
              /\ cell.out.s = ZoneByPrecedence(cell.arg)

\* The missing subregion, classified Unknown
C17_Witness ==
    /\ cell.fn = "_categorise_melbourne_zone"
    /\ cell.arg = ""
    /\ cell.out = Str("Unknown")

\* A text with "Outer" before "Inner", classified Inner by precedence
C17_WitnessPrecedence ==
    /\ cell.fn = "_categorise_melbourne_zone"
    /\ cell.arg = "Outer Inner"
    /\ cell.out = Str("Inner")

\* C17 as stated: every subregion value, the missing one included, is
\* classified as one of Inner, Middle, Outer, Regional and Other
C17_AsStated ==
    cell.fn = "_categorise_melbourne_zone" =>
        cell.out.s \in {"Inner", "Middle", "Outer", "Regional", "Other"}

----------------------------------------------------------------------------
(* Rerunning steps (Spec) *)

AllTables == UNION {Outputs(StepNames[i]) : i \in 1..Len(StepNames)}

\* C18: a step invoked again right after it completed leaves every table of
\* the store as it was, and so does every step of a second pass over the
\* step sequence of main, which starts from the store holding every table
C18_Idempotent ==
    [][/\ (step.error = "" /\ step'.error = "" /\ step'.op = step.op) =>
             processed_data' = processed_data
       /\ (DOMAIN processed_data = AllTables /\ step'.error = "") =>
             processed_data' = processed_data]_vars

\* prep_households completed on a store that holds every table, master among
\* them: households was stored before, so this is a second invocation
C18_Witness ==
    /\ DOMAIN processed_data = AllTables
    /\ step.op = "prep_households"
    /\ step.error = ""

----------------------------------------------------------------------------
(* Stored prerequisites (lines 547-553, 620-626, 652-658) *)

\* The tables a dependent step asks for, each with the step that produces it
Prerequisites(name) ==
    CASE name = "prep_person_trip" ->
            {<<"persons", "prep_persons">>, <<"trips", "prep_trips">>}
      [] name = "create_combined_dataset" ->
            {<<"households", "prep_households">>,
             <<"persons_trips_summary", "prep_person_trip">>}
      [] name = "create_compare_dataset" ->
            {<<"trips", "prep_trips">>, <<"master", "create_combined_dataset">>}
      [] OTHER -> {}

\* The steps an invocation started, itself included
Ran(s) == {s.ran[i] : i \in 1..Len(s.ran)}

\* C19: a dependent step that finds a prerequisite table in the store does
\* not run the step that produces it and leaves the table as it was; and
\* prep_trips and prep_persons leave a stored persons_trips_summary and a
\* stored master as they were
C19_StoredPrerequisites ==
    [][/\ step'.op \in Dependents =>
             \A p \in Prerequisites(step'.op) :
                 p[1] \in DOMAIN processed_data =>
                     /\ p[2] \notin Ran(step')
                     /\ processed_data'[p[1]] = processed_data[p[1]]
       /\ step'.op \in {"prep_trips", "prep_persons"} =>
             \A t \in {"persons_trips_summary", "master"} \cap DOMAIN processed_data :
                 /\ Ran(step') = {step'.op}
                 /\ processed_data'[t] = processed_data[t]]_vars

\* create_compare_dataset found trips stored and master absent: it ran
\* create_combined_dataset and not prep_trips
C19_Witness ==
    /\ step.op = "create_compare_dataset"
    /\ step.error = ""
    /\ "create_combined_dataset" \in Ran(step)
    /\ "prep_trips" \notin Ran(step)

\* prep_trips invoked again with master stored
C19_WitnessRerun ==
    /\ step.op = "prep_trips"
    /\ step.error = ""
    /\ "master" \in DOMAIN processed_data

----------------------------------------------------------------------------
(* The cached raw relations (SpecFrame) *)

\* C20: whatever accessors and steps have been invoked, a raw relation that
\* has been loaded holds the rows, columns and values of its file
C20_RawUnwritten ==
    \A d \in DatasetNames : raw[d] # NotLoaded => raw[d].rows = files[d]

\* prep_persons has stored its enriched copy and an accessor has returned a
\* relation built from the raw trips
C20_Witness ==
    /\ "persons" \in DOMAIN processed_data
    /\ processed_data["persons"] # raw["persons"].rows
    /\ "journey_work" \in DOMAIN processed_data
    /\ call.op = "get_modal_data"
    /\ call.ret.rows # <<>>
    /\ raw["trips"] # NotLoaded

----------------------------------------------------------------------------
(* Journey distance and complexity (prep_journeys, lines 502-528) *)

JourneyTables == {"journey_work", "journey_education"}

\* The number a journey's distance text reads as; the texts of the journey
\* files are integers, with or without a sign
IsNegativeText(text) == Len(text) > 1 /\ Char(text, 1) = "-" /\ AllDigits(Slice(text, 2, Len(text)))
IsNaturalText(text) == Len(text) > 0 /\ AllDigits(text)

FourBands == {DistanceLabels[i] : i \in 1..Len(DistanceLabels)}

\* C21: in the stored journeys, a journey whose source distance is negative
\* has jdist = 0 and one of the four distance categories, and a journey whose
\* source distance is a non-negative number keeps it as jdist and has one of
\* the four distance categories
C21_AsStated ==
    \A name \in JourneyTables \cap DOMAIN processed_data :
        \A i \in 1..Len(processed_data[name]) :
            LET row == processed_data[name][i]
            IN  /\ IsNegativeText(row.journey_distance) =>
                      /\ row.jdist = <<0, 1>>
                      /\ row.journey_distance_category \in FourBands
                /\ IsNaturalText(row.journey_distance) =>
                      /\ row.jdist = <<DigitsValue(row.journey_distance), 1>>
                      /\ row.journey_distance_category \in FourBands

\* The leg-mode slots of a journey that hold a mode
Slots(row) == {k \in 1..15 : row.modes[k] # ""}

\* C22: in the stored journeys, num_stops is the number of leg-mode slots
\* that are not missing, between 0 and 15, and every journey has a complexity
\* level: One-Stage for 1, Two-Stage for 2, Three-Stage for 3, Complex for
\* 4 to 15, and none is left without a level
C22_AsStated ==
    \A name \in JourneyTables \cap DOMAIN processed_data :
        \A i \in 1..Len(processed_data[name]) :
            LET row == processed_data[name][i]
            IN  /\ row.num_stops = Cardinality(Slots(row))
                /\ row.num_stops \in 0..15
                /\ row.journey_complexity \in
                      {"One-Stage", "Two-Stage", "Three-Stage", "Complex"}
                /\ row.num_stops = 1 => row.journey_complexity = "One-Stage"
                /\ row.num_stops = 2 => row.journey_complexity = "Two-Stage"
                /\ row.num_stops = 3 => row.journey_complexity = "Three-Stage"
                /\ row.num_stops \in 4..15 => row.journey_complexity = "Complex"

====
